---- MODULE Spec2Model ----
(***************************************************************************)
(* KARL AI ASSISTANCE, the WhatsApp bot of src/unnamed/part_000: the       *)
(* WhatsAppBot object (sock, isConnected, reconnectAttempts), the          *)
(* transports it constructs, its timers, its pending asynchronous calls    *)
(* (initialize, completion, send, pairing request) and its HTTP routes.    *)
(*                                                                         *)
(* One action is one run-to-completion step of the single-threaded event   *)
(* loop: a handler from its start (or from the await it resumes at) to its *)
(* next await or its end.  A pending timer may fire at any later step.     *)
(*                                                                         *)
(* A text is a sequence of one-character strings ("U+1F600" is one         *)
(* character of two UTF-16 code units).  A transport object is named by a  *)
(* slot of Handles; a closed transport that nothing refers to any more     *)
(* gives its slot back.                                                    *)
(*                                                                         *)
(* Eight specifications share the actions:                                 *)
(*   Spec        the connection lifecycle: initialize(), the               *)
(*               connection.update handler, the timers, POST /start,       *)
(*               POST /pair, the pairing requests;                         *)
(*   SpecLive    the lifecycle with no HTTP request arriving, under the    *)
(*               fairness of timers, awaits and connecting transports;     *)
(*   SpecAll     every handler and route, each over one input, with a      *)
(*               bound on the calls pending at one time;                   *)
(*   SpecPair    the pairing requests of the close and open handlers, the  *)
(*               auto-pair timer and POST /pair, their codes and their     *)
(*               failures, while transports are constructed, opened and    *)
(*               logged out;                                               *)
(*   SpecSend    the sends (replies, POST /send, pairing requests) while   *)
(*               transports are constructed, opened and logged out (no     *)
(*               other close reason, hence no reconnect timer);            *)
(*   SpecHandle  handleMessage and getAIResponse over the message and      *)
(*               completion inputs, on one open transport;                 *)
(*   SpecUpsert  the messages.upsert handlers of the bot and of the        *)
(*               minimal script (src/index.js) over the same batches;      *)
(*   SpecMinimal the minimal script: startBot, its connection.update and   *)
(*               messages.upsert handlers.                                 *)
(***************************************************************************)
EXTENDS Integers, Sequences, FiniteSets, Bags, TLC

VARIABLES
  sock,               \* this.sock: 0 (null) or the handle held
  isConnected,        \* this.isConnected
  reconnectAttempts,  \* this.reconnectAttempts
  conn,               \* the state of each transport object
  latest,             \* the handle makeWASocket returned last (0: none yet)
  inits,              \* bag of callers whose initialize() is at an await
  timers,             \* bag of the delays (ms) of the pending reconnect timers
  autoPair,           \* the auto-pair timer of startApplication is pending
  replies,            \* bag of handleMessage calls awaiting getAIResponse
  sending,            \* bag of sock.sendMessage calls in flight
  pairings,           \* bag of sock.requestPairingCode calls in flight
  pairingLog,         \* pairing_log.json: <<>> (no file) or <<record>>
  scheduledSinceOpen, \* reconnect timers set since the last open event
  last                \* what the last step did (observation only)

vars == <<sock, isConnected, reconnectAttempts, conn, latest, inits, timers,
          autoPair, replies, sending, pairings, pairingLog,
          scheduledSinceOpen, last>>

----------------------------------------------------------------------------
(* Bounds of the exploration *)

MaxHandles == 2      \* transport objects alive or referred to at one time
MaxInits == 2        \* initialize() calls at an await at one time
MaxTimers == 1       \* reconnect timers pending at one time
MaxReplies == 1      \* handleMessage calls awaiting the completion at one time
MaxSending == 1      \* sendMessage calls in flight at one time
MaxPairings == 2     \* requestPairingCode calls in flight at one time
MaxInFlight == 2     \* calls and timers pending at one time, in SpecAll
MaxAttempts == 7     \* startBot calls of close events between two open events

(* Program constants *)

maxReconnectAttempts == 5
BaseInterval == 5000

BOT_NAME == "KARL AI ASSISTANCE"

Handles == 1..MaxHandles

\* lastDisconnect.error.output.statusCode: DisconnectReason.loggedOut or
\* another one.
Reasons == {"loggedOut", "connectionClosed"}

----------------------------------------------------------------------------
(* Bags *)

One(e) == SetToBag({e})

Count(b) == BagCardinality(b)

----------------------------------------------------------------------------
(* Texts *)

Min(S) == CHOOSE x \in S : \A y \in S : x <= y

\* String.prototype.length counts UTF-16 code units.
CodeUnits(c) == IF c = "U+1F600" THEN 2 ELSE 1

RECURSIVE JsLength(_)
JsLength(s) == IF s = <<>> THEN 0 ELSE CodeUnits(Head(s)) + JsLength(Tail(s))

LowerChar(c) ==
  CASE c = "A" -> "a" [] c = "I" -> "i" [] c = "K" -> "k" [] c = "L" -> "l"
    [] c = "R" -> "r" [] c = "S" -> "s" [] OTHER -> c

ToLowerCaseId(s) == s

ToLowerCase(s) == [i \in 1..Len(s) |-> LowerChar(s[i])]

IsSpace(c) == c \in {" ", "\t"}

RECURSIVE TrimStart(_)
TrimStart(s) ==
  IF s # <<>> /\ IsSpace(Head(s)) THEN TrimStart(Tail(s)) ELSE s

RECURSIVE TrimEnd(_)
TrimEnd(s) ==
  IF s # <<>> /\ IsSpace(s[Len(s)]) THEN TrimEnd(SubSeq(s, 1, Len(s) - 1))
  ELSE s

Trim(s) == TrimEnd(TrimStart(s))

Includes(s, sub) ==
  \E i \in 1..(Len(s) - Len(sub) + 1) : SubSeq(s, i, i + Len(sub) - 1) = sub

StartsWith(s, pre) == Len(s) >= Len(pre) /\ SubSeq(s, 1, Len(pre)) = pre

IsDigit(c) == c \in {"0", "1", "2", "3", "4", "5", "6", "7", "8", "9"}

\* s.replace(/[^0-9]/g, '')
Digits(s) == SelectSeq(s, IsDigit)

Karl == <<"k", "a", "r", "l">>
AtKarl == <<"@", "k", "a", "r", "l">>
KarlSpace == <<"k", "a", "r", "l", " ">>
KarlComma == <<"k", "a", "r", "l", ",">>
Assistant == <<"a", "s", "s", "i", "s", "t", "a", "n", "t">>
AiSpace == <<"a", "i", " ">>
RateLimit == <<"r", "a", "t", "e", " ", "l", "i", "m", "i", "t">>
Invalid == <<"i", "n", "v", "a", "l", "i", "d">>

----------------------------------------------------------------------------
(* Inputs *)

\* msg.message.conversation
Bodies ==
  {<<>>,
   <<"k">>,
   <<"U+1F600">>,
   <<"h", "i">>,
   <<"k", "a", "r", "l">>,
   <<"K", "A", "R", "L">>,
   <<"h", "e", "y", " ", "K", "a", "r", "l">>,
   <<"@", "k", "a", "r", "l">>,
   <<"a", "s", "s", "i", "s", "t", "a", "n", "t">>,
   <<"a", "i", " ">>,
   <<"a", "i", " ", "x">>,
   <<"A", "I", " ", "x">>,
   <<"s", "a", "i", "d">>,
   <<" ", "k", "a", "r", "l", "\t">>,
   <<"k", " ", "a", "r", "l">>,
   <<"A", "S", "S", "I", "S", "T", "A", "N", "T">>,
   <<" ">>,
   <<"U+1F600", "k">>}

NoMsg ==
  [hasMessage |-> FALSE, fromMe |-> FALSE, isGroup |-> FALSE,
   conversation |-> <<>>, extendedText |-> <<>>,
   imageCaption |-> <<>>, videoCaption |-> <<>>]

\* The messages SpecHandle delivers: every body alone, and the bodies that
\* do not trigger (none, one character, two characters) with every
\* combination of the other texts.
Messages ==
  {m \in [hasMessage : BOOLEAN, fromMe : BOOLEAN, isGroup : BOOLEAN,
          conversation : Bodies,
          extendedText : {<<>>, <<"K", "a", "r", "l", "?">>},
          imageCaption : {<<>>, <<"k">>},
          videoCaption : {<<>>, <<"a", "i", " ", "i", "s">>}] :
     \/ m.conversation \in {<<>>, <<"k">>, <<"h", "i">>}
     \/ /\ m.extendedText = <<>>
        /\ m.imageCaption = <<>>
        /\ m.videoCaption = <<>>}

\* The messages SpecSend delivers: a direct and a group message that
\* trigger, and one that does not.
FewMessages ==
  {[NoMsg EXCEPT !.hasMessage = TRUE, !.conversation = <<"K", "a", "r", "l", " ", "h", "i">>],
   [NoMsg EXCEPT !.hasMessage = TRUE, !.isGroup = TRUE,
                 !.extendedText = <<"@", "k", "a", "r", "l">>],
   [NoMsg EXCEPT !.hasMessage = TRUE, !.conversation = <<"h", "e", "l", "l", "o">>]}

\* A direct message that triggers.
OneMessage ==
  [NoMsg EXCEPT !.hasMessage = TRUE, !.conversation = <<"K", "a", "r", "l", " ", "h", "i">>]

\* What openai.chat.completions.create does: it resolves with a content
\* (<<>>: none) or rejects with an Error of some message.
Resolved(content) == [ok |-> TRUE, content |-> content, message |-> <<>>]

Rejected(message) == [ok |-> FALSE, content |-> <<>>, message |-> message]

Outcomes ==
  {Resolved(c) : c \in {<<>>, <<"o", "k">>, <<" ", "o", "k", " ">>, <<" ", " ">>}}
  \cup
  {Rejected(e) : e \in
     {<<>>, <<"r", "a", "t", "e", " ", "l", "i", "m", "i", "t">>, <<"i", "n", "v", "a", "l", "i", "d", " ", "k", "e", "y">>, <<"R", "a", "t", "e", " ", "l", "i", "m", "i", "t">>,
      <<"i", "n", "v", "a", "l", "i", "d", ":", " ", "r", "a", "t", "e", " ", "l", "i", "m", "i", "t">>,
      <<"t", "i", "m", "e", "o", "u", "t">>, <<"x", " ", "r", "a", "t", "e", " ", "l", "i", "m", "i", "t", "s">>}}

FewOutcomes == {Resolved(<<"o", "k">>), Rejected(<<"r", "a", "t", "e", " ", "l", "i", "m", "i", "t">>)}

\* POST /send/:number
Numbers == {<<"2", "6", "3">>, <<"+", "2", "6", " ", "3", "-", "7">>}

SendTexts == {<<>>, <<"h", "i">>}

----------------------------------------------------------------------------
(* What a step reports: every action sets `last` to Quiet with the fields  *)
(* of what it did filled in.                                               *)

Quiet ==
  [op |-> "none",          \* the handler that ran
   reason |-> "",          \* the close reason, or the caller of the call
   registered |-> FALSE,   \* creds.registered as the open handler read it
   delay |-> 0,            \* the delay of the setTimeout it made, 0: none
   fatal |-> FALSE,        \* it logged 'Max reconnect attempts reached'
   pairOn |-> 0,           \* the transport it called requestPairingCode on
   sendOn |-> 0,           \* the transport it called sendMessage on
   sends |-> 0,            \* the number of sendMessage calls it made
   number |-> <<>>,        \* req.params.number of POST /send
   to |-> <<>>,            \* the jid POST /send sent to
   text |-> <<>>,          \* the text it sent, or req.body.message
   mentions |-> FALSE,     \* the message it sent carries a mention
   completion |-> FALSE,   \* it called the Completion Client
   msg |-> NoMsg,          \* the message handleMessage was given
   batch |-> <<>>,         \* the messages of the messages.upsert event
   err |-> <<>>,           \* the message of the error it caught
   failed |-> FALSE,       \* the call it awaited rejected
   deliveredBy |-> 0,      \* the transport that delivered the message replied to
   replaced |-> FALSE,     \* this.sock was replaced while the call was awaited
   status |-> 0,           \* the HTTP status it answered
   thrown |-> FALSE,       \* it let an exception out to the event loop
   resends |-> 0,          \* the sends it issued again after a failure
   code |-> "",            \* the code its pairing request returned
   answered |-> "",        \* the code in the answer of POST /pair
   connected |-> FALSE,    \* 'connected' of the status it returned
   attempts |-> 0]         \* 'reconnectAttempts' of the status it returned

----------------------------------------------------------------------------
(* Transport objects *)

Live(c, h) == c[h] \in {"connecting", "open"}

\* The transports a handleMessage call in flight was delivered by.
Deliverers(rs) == {t.h : t \in BagToSet(rs)}

\* A closed transport that is neither this.sock nor the deliverer of a
\* handleMessage call in flight is garbage: its slot is free again.
Release(c, s, rs) ==
  [h \in Handles |->
     IF c[h] = "closed" /\ h # s /\ h \notin Deliverers(rs) THEN "none"
     ELSE c[h]]

\* The slots makeWASocket can take when this.sock is about to move on.
FreeSlots ==
  {h \in Handles : ~Live(conn, h) /\ h \notin Deliverers(replies)}

----------------------------------------------------------------------------
(* requestPairingCode, to its await: the call it makes on the transport    *)

PairSock(s) == s

\* The callers of requestPairingCode: the close handler, the open handler,
\* the auto-pair timer, POST /pair.
PairCallers == {"close", "open", "auto", "pair"}

requestPairingCode(s, caller) == IF s = 0 THEN EmptyBag ELSE One(caller)

PairOn(s) == IF s = 0 THEN 0 ELSE PairSock(s)

----------------------------------------------------------------------------
(* initialize() *)

\* POST /start, POST /pair, a reconnect timer: initialize() runs to its
\* first await.
BeginInit(caller) ==
  /\ Count(inits) < MaxInits
  /\ inits' = inits (+) One(caller)

KeptTimersNone(ts) == EmptyBag

\* The reconnect timers still pending once a route has called initialize():
\* all of them, nothing clears a timer.
KeptTimers(ts) == ts

PostStart ==
  /\ BeginInit("start")
  /\ timers' = KeptTimers(timers)
  /\ last' = [Quiet EXCEPT !.op = "POST /start"]
  /\ UNCHANGED <<sock, isConnected, reconnectAttempts, conn, latest,
                 autoPair, replies, sending, pairings, pairingLog,
                 scheduledSinceOpen>>

PostPair ==
  /\ BeginInit("pair")
  /\ timers' = KeptTimers(timers)
  /\ last' = [Quiet EXCEPT !.op = "POST /pair"]
  /\ UNCHANGED <<sock, isConnected, reconnectAttempts, conn, latest,
                 autoPair, replies, sending, pairings, pairingLog,
                 scheduledSinceOpen>>

\* What initialize() does to the transports it finds when it constructs a
\* new one: nothing.
Superseded(c) == c

SockReplaced(t) == [t EXCEPT !.replaced = TRUE]

\* initialize() resumes, constructs the transport, registers its handlers
\* and returns; its caller goes on to its own next await or end.
InitConstruct(caller) ==
  /\ BagIn(caller, inits)
  /\ FreeSlots # {}
  /\ caller = "pair" => Count(pairings) < MaxPairings
  /\ LET h == Min(FreeSlots)
     IN /\ sock' = h
        /\ latest' = h
        /\ conn' = Release([Superseded(conn) EXCEPT ![h] = "connecting"],
                           h, replies)
        /\ pairings' = IF caller = "pair"
                       THEN pairings (+) requestPairingCode(h, "pair")
                       ELSE pairings
        /\ last' = [Quiet EXCEPT !.op = "initialize", !.reason = caller,
                      !.pairOn = IF caller = "pair" THEN PairOn(h) ELSE 0,
                      !.status = IF caller = "start" THEN 200 ELSE 0]
  /\ inits' = inits (-) One(caller)
  /\ autoPair' = IF caller = "startup" THEN TRUE ELSE autoPair
  /\ replies' = BagOfAll(SockReplaced, replies)
  /\ UNCHANGED <<isConnected, reconnectAttempts, timers, sending, pairingLog,
                 scheduledSinceOpen>>

\* The callers of initialize() that have no catch around the call: the
\* arrow function of the reconnect timer.
Uncaught(caller) == caller = "timer"

\* initialize() throws (the auth directory, the version fetch, makeWASocket).
InitFail(caller) ==
  /\ BagIn(caller, inits)
  /\ inits' = inits (-) One(caller)
  /\ last' = [Quiet EXCEPT !.op = "initialize failed", !.reason = caller,
                !.status = IF caller \in {"start", "pair"} THEN 500 ELSE 0,
                !.thrown = Uncaught(caller)]
  /\ UNCHANGED <<sock, isConnected, reconnectAttempts, conn, latest, timers,
                 autoPair, replies, sending, pairings, pairingLog,
                 scheduledSinceOpen>>

----------------------------------------------------------------------------
(* connection.update *)

ReconnectDelayFlat(n) == BaseInterval

ReconnectDelay(n) == BaseInterval * n

CanRetryOnceMore(n) == n <= maxReconnectAttempts

CanRetry(n) == n < maxReconnectAttempts

IsLoggedOutNever(reason) == FALSE

IsLoggedOut(reason) == reason = "loggedOut"

NeedsPairing(registered) == ~registered

AfterOpenKept(n) == n

AfterOpen(n) == 0

AfterRetryTwice(n) == n + 2

AfterRetry(n) == n + 1

OnClose(h, reason) ==
  /\ Live(conn, h)
  /\ conn' = Release([conn EXCEPT ![h] = "closed"], sock, replies)
  /\ isConnected' = FALSE
  /\ IF IsLoggedOut(reason)
     THEN /\ Count(pairings) < MaxPairings
          /\ pairings' = pairings (+) requestPairingCode(sock, "close")
          /\ last' = [Quiet EXCEPT !.op = "close", !.reason = reason,
                        !.pairOn = PairOn(sock)]
          /\ UNCHANGED <<reconnectAttempts, timers, scheduledSinceOpen>>
     ELSE IF CanRetry(reconnectAttempts)
     THEN /\ Count(timers) < MaxTimers
          /\ reconnectAttempts' = AfterRetry(reconnectAttempts)
          /\ timers' = timers (+) One(ReconnectDelay(reconnectAttempts'))
          /\ scheduledSinceOpen' = scheduledSinceOpen + 1
          /\ last' = [Quiet EXCEPT !.op = "close", !.reason = reason,
                        !.delay = ReconnectDelay(reconnectAttempts')]
          /\ UNCHANGED pairings
     ELSE /\ last' = [Quiet EXCEPT !.op = "close", !.reason = reason,
                        !.fatal = TRUE]
          /\ UNCHANGED <<reconnectAttempts, timers, pairings,
                         scheduledSinceOpen>>
  /\ UNCHANGED <<sock, latest, inits, autoPair, replies, sending, pairingLog>>

\* registered: this.sock.authState.creds.registered as the handler reads it.
OnOpen(h, registered) ==
  /\ conn[h] = "connecting"
  /\ conn' = [conn EXCEPT ![h] = "open"]
  /\ isConnected' = TRUE
  /\ reconnectAttempts' = AfterOpen(reconnectAttempts)
  /\ scheduledSinceOpen' = 0
  /\ IF NeedsPairing(registered)
     THEN /\ Count(pairings) < MaxPairings
          /\ pairings' = pairings (+) requestPairingCode(sock, "open")
          /\ last' = [Quiet EXCEPT !.op = "open", !.registered = registered,
                        !.pairOn = PairOn(sock)]
     ELSE /\ last' = [Quiet EXCEPT !.op = "open", !.registered = registered]
          /\ UNCHANGED pairings
  /\ UNCHANGED <<sock, latest, inits, timers, autoPair, replies, sending,
                 pairingLog>>

----------------------------------------------------------------------------
(* Timers *)

\* setTimeout(() => this.initialize(), delay) fires.
TimerFire(delay) ==
  /\ BagIn(delay, timers)
  /\ timers' = timers (-) One(delay)
  /\ BeginInit("timer")
  /\ last' = [Quiet EXCEPT !.op = "timer"]
  /\ UNCHANGED <<sock, isConnected, reconnectAttempts, conn, latest, autoPair,
                 replies, sending, pairings, pairingLog, scheduledSinceOpen>>

\* The auto-pair timer of startApplication fires.
AutoPairFire ==
  /\ autoPair
  /\ autoPair' = FALSE
  /\ IF ~isConnected
     THEN /\ Count(pairings) < MaxPairings
          /\ pairings' = pairings (+) requestPairingCode(sock, "auto")
          /\ last' = [Quiet EXCEPT !.op = "auto-pair", !.pairOn = PairOn(sock)]
     ELSE /\ last' = [Quiet EXCEPT !.op = "auto-pair"]
          /\ UNCHANGED pairings
  /\ UNCHANGED <<sock, isConnected, reconnectAttempts, conn, latest, inits,
                 timers, replies, sending, pairingLog, scheduledSinceOpen>>

----------------------------------------------------------------------------
(* requestPairingCode, from its await *)

PHONE_NUMBER == "+263777965084"

Codes == {"code1", "code2"}

AlreadyPaired == <<"a", "l", "r", "e", "a", "d", "y", " ", "p", "a", "i", "r", "e", "d">>
Authenticated == <<"a", "u", "t", "h", "e", "n", "t", "i", "c", "a", "t", "e", "d">>

\* The messages of the errors sock.requestPairingCode rejects with.
PairingErrors ==
  {<<"a", "l", "r", "e", "a", "d", "y", " ", "p", "a", "i", "r", "e", "d">>,
   <<"n", "o", "t", " ", "a", "u", "t", "h", "e", "n", "t", "i", "c", "a", "t", "e", "d">>,
   <<"C", "o", "n", "n", "e", "c", "t", "i", "o", "n", " ", "C", "l", "o", "s", "e", "d">>,
   <<>>}

\* The catch block: what it tells the operator.
PairingAdvice(message) ==
  IF Includes(message, AlreadyPaired) \/ Includes(message, Authenticated)
  THEN "no action needed"
  ELSE "try manual pairing"

\* The record requestPairingCode writes to pairing_log.json.
PairingRecordPending(code) ==
  [phone |-> PHONE_NUMBER, code |-> code, status |-> "pending"]

PairingRecord(code) ==
  [phone |-> PHONE_NUMBER, code |-> code, status |-> "generated"]

CheckLogs == "Check logs for code"

\* POST /pair, after its await of requestPairingCode: the code it answers
\* with is the one it reads back from pairing_log.json.
PairAnswer(log) == IF log = <<>> THEN CheckLogs ELSE log[1].code

PairingDone(caller, code) ==
  /\ BagIn(caller, pairings)
  /\ pairings' = pairings (-) One(caller)
  /\ pairingLog' = <<PairingRecord(code)>>
  /\ last' = [Quiet EXCEPT !.op = "paired", !.reason = caller,
                !.code = code,
                !.status = IF caller = "pair" THEN 200 ELSE 0,
                !.answered = IF caller = "pair" THEN PairAnswer(pairingLog')
                             ELSE ""]
  /\ UNCHANGED <<sock, isConnected, reconnectAttempts, conn, latest, inits,
                 timers, autoPair, replies, sending, scheduledSinceOpen>>

AfterPairingFailureErased(log) == <<>>

\* pairing_log.json once the catch block of requestPairingCode has run.
AfterPairingFailure(log) == log

PairingFailed(caller, message) ==
  /\ BagIn(caller, pairings)
  /\ pairings' = pairings (-) One(caller)
  /\ pairingLog' = AfterPairingFailure(pairingLog)
  /\ last' = [Quiet EXCEPT !.op = "pairing failed", !.reason = caller,
                !.failed = TRUE, !.err = message,
                !.status = IF caller = "pair" THEN 200 ELSE 0,
                !.answered = IF caller = "pair" THEN PairAnswer(pairingLog')
                             ELSE ""]
  /\ UNCHANGED <<sock, isConnected, reconnectAttempts, conn, latest, inits,
                 timers, autoPair, replies, sending, scheduledSinceOpen>>

----------------------------------------------------------------------------
(* getAIResponse *)

\* The replies of getAIResponse, without their leading emoji.
Sorry == "Sorry, I could not process that request."
Busy == "I'm busy right now. Please try again in a moment!"
Checkup == "My AI brain needs a checkup. Try again soon!"
Issues == "AI service is having issues. I'll be back!"

\* The catch block: the reply that stands in for the completion.
Fallback(message) ==
  IF Includes(message, RateLimit) THEN Busy
  ELSE IF Includes(message, Invalid) THEN Checkup
  ELSE Issues

getAIResponseRethrows(outcome) ==
  IF outcome.ok
  THEN [threw |-> FALSE,
        value |-> IF Trim(outcome.content) # <<>> THEN Trim(outcome.content)
                  ELSE <<Sorry>>]
  ELSE [threw |-> TRUE, value |-> <<>>]

\* What getAIResponse settles with when the completion call settled with
\* outcome.
getAIResponse(outcome) ==
  IF outcome.ok
  THEN [threw |-> FALSE,
        value |-> IF Trim(outcome.content) # <<>> THEN Trim(outcome.content)
                  ELSE <<Sorry>>]
  ELSE [threw |-> FALSE, value |-> <<Fallback(outcome.message)>>]

----------------------------------------------------------------------------
(* handleMessage *)

ExtractText(m) ==
  IF m.conversation # <<>> THEN m.conversation
  ELSE IF m.extendedText # <<>> THEN m.extendedText
  ELSE IF m.imageCaption # <<>> THEN m.imageCaption
  ELSE IF m.videoCaption # <<>> THEN m.videoCaption
  ELSE <<>>

SkipsNothingOfMine(m) == ~m.hasMessage

Skips(m) == ~m.hasMessage \/ m.fromMe

TooShort(text) == text = <<>> \/ JsLength(text) < 2

lowerText(text) == Trim(ToLowerCase(text))

triggers(lowered) ==
  <<Includes(lowered, Karl),
    Includes(lowered, AtKarl),
    StartsWith(lowered, KarlSpace),
    StartsWith(lowered, KarlComma),
    Includes(lowered, Assistant),
    Includes(lowered, AiSpace)>>

\* triggers.some(Boolean)
Triggered(text) ==
  LET fired == triggers(lowerText(text))
  IN \E i \in 1..Len(fired) : fired[i]

\* The trigger of the minimal script (src/index.js).
MinimalTrigger(text) ==
  Includes(ToLowerCase(text), Karl) \/ Includes(text, AtKarl)

\* handleMessage goes on to the completion call.
Accepts(m) ==
  /\ ~Skips(m)
  /\ ~TooShort(ExtractText(m))
  /\ Triggered(ExtractText(m))

Mentions(m) ==
  LET lowered == lowerText(ExtractText(m))
  IN m.isGroup /\ (Includes(lowered, AtKarl) \/ Includes(lowered, Karl))

ReplyText(body) == <<BOT_NAME, ": ">> \o body

ReplySockOfDelivery(s, t) == t.h

\* The transport the reply is sent on: this.sock when the completion is in.
ReplySock(s, t) == s

HandledOfAnyType(type, msgs) == Len(msgs) > 0

\* The events the messages.upsert handler passes on to handleMessage.
Handled(type, msgs) == type = "notify" /\ Len(msgs) > 0

\* messages.upsert on transport h.
Upsert(h, type, msgs) ==
  /\ conn[h] = "open"
  /\ LET event == [Quiet EXCEPT !.op = "messages.upsert", !.reason = type,
                     !.batch = msgs, !.deliveredBy = h]
     IN IF Handled(type, msgs)
        THEN IF Accepts(msgs[1])
             THEN /\ Count(replies) < MaxReplies
                  /\ replies' = replies (+)
                       One([h |-> h, msg |-> msgs[1], replaced |-> FALSE,
                            minimal |-> FALSE])
                  /\ last' = [event EXCEPT !.msg = msgs[1],
                                !.completion = TRUE]
             ELSE /\ last' = [event EXCEPT !.msg = msgs[1]]
                  /\ UNCHANGED replies
        ELSE /\ last' = event
             /\ UNCHANGED replies
  /\ UNCHANGED <<sock, isConnected, reconnectAttempts, conn, latest, inits,
                 timers, autoPair, sending, pairings, pairingLog,
                 scheduledSinceOpen>>

\* getAIResponse settles and handleMessage goes on to its send.
CompletionDone(t, outcome) ==
  /\ BagIn(t, replies)
  /\ ~t.minimal
  /\ replies' = replies (-) One(t)
  /\ conn' = Release(conn, sock, replies')
  /\ LET aiReply == getAIResponse(outcome)
         done == [Quiet EXCEPT !.op = "completion", !.failed = ~outcome.ok,
                    !.err = outcome.message, !.deliveredBy = t.h,
                    !.replaced = t.replaced]
     IN IF aiReply.threw
        THEN /\ last' = done
             /\ UNCHANGED sending
        ELSE /\ Count(sending) < MaxSending
             /\ sending' = sending (+) One("reply")
             /\ last' = [done EXCEPT !.sendOn = ReplySock(sock, t),
                           !.sends = 1, !.text = ReplyText(aiReply.value),
                           !.mentions = Mentions(t.msg)]
  /\ UNCHANGED <<sock, isConnected, reconnectAttempts, latest, inits, timers,
                 autoPair, pairings, pairingLog, scheduledSinceOpen>>

ResendOnFailure(kind, ok) == IF ok THEN EmptyBag ELSE One(kind)

\* The sends a caller of sock.sendMessage issues once its send has settled:
\* the catch of handleMessage and the catch of POST /send issue none.
Resend(kind, ok) == EmptyBag

\* sock.sendMessage settles: handleMessage logs and returns, POST /send
\* answers.
SendDone(kind, ok) ==
  /\ BagIn(kind, sending)
  /\ sending' = (sending (-) One(kind)) (+) Resend(kind, ok)
  /\ last' = [Quiet EXCEPT !.op = "send settled", !.reason = kind,
                !.failed = ~ok,
                !.resends = Count(Resend(kind, ok)),
                !.thrown = (kind = "minimal" /\ ~ok),
                !.status = IF kind = "direct"
                           THEN IF ok THEN 200 ELSE 500
                           ELSE 0]
  /\ UNCHANGED <<sock, isConnected, reconnectAttempts, conn, latest, inits,
                 timers, autoPair, replies, pairings, pairingLog,
                 scheduledSinceOpen>>

----------------------------------------------------------------------------
(* The minimal script (src/index.js): its messages.upsert handler *)

MinimalSorry == "Sorry, I could not process that."
MinimalIssues == "Sorry, AI is having issues. Try again!"

\* getAIResponse of the minimal script.
MinimalResponse(outcome) ==
  IF outcome.ok
  THEN IF outcome.content # <<>> THEN outcome.content ELSE <<MinimalSorry>>
  ELSE <<MinimalIssues>>

MinimalText(m) ==
  IF m.conversation # <<>> THEN m.conversation
  ELSE IF m.extendedText # <<>> THEN m.extendedText
  ELSE <<>>

MinimalAccepts(m) == ~Skips(m) /\ MinimalTrigger(MinimalText(m))

\* messages.upsert on transport h of the minimal script: the handler takes
\* messages[0] whatever the type of the event; on an empty batch messages[0]
\* is undefined and reading its message throws.
MinimalUpsert(h, type, msgs) ==
  /\ conn[h] = "open"
  /\ LET event == [Quiet EXCEPT !.op = "minimal messages.upsert",
                     !.reason = type, !.batch = msgs, !.deliveredBy = h]
     IN IF Len(msgs) = 0
        THEN /\ last' = [event EXCEPT !.thrown = TRUE]
             /\ UNCHANGED replies
        ELSE IF MinimalAccepts(msgs[1])
        THEN /\ Count(replies) < MaxReplies
             /\ replies' = replies (+)
                  One([h |-> h, msg |-> msgs[1], replaced |-> FALSE,
                       minimal |-> TRUE])
             /\ last' = [event EXCEPT !.msg = msgs[1], !.completion = TRUE]
        ELSE /\ last' = [event EXCEPT !.msg = msgs[1]]
             /\ UNCHANGED replies
  /\ UNCHANGED <<sock, isConnected, reconnectAttempts, conn, latest, inits,
                 timers, autoPair, sending, pairings, pairingLog,
                 scheduledSinceOpen>>

\* getAIResponse settles and the handler sends its reply, on the transport
\* of its own startBot call.
MinimalCompletionDone(t, outcome) ==
  /\ BagIn(t, replies)
  /\ t.minimal
  /\ Count(sending) < MaxSending
  /\ replies' = replies (-) One(t)
  /\ conn' = Release(conn, sock, replies')
  /\ sending' = sending (+) One("minimal")
  /\ last' = [Quiet EXCEPT !.op = "minimal completion",
                !.failed = ~outcome.ok, !.err = outcome.message,
                !.deliveredBy = t.h, !.replaced = t.replaced,
                !.sendOn = t.h, !.sends = 1,
                !.text = ReplyText(MinimalResponse(outcome))]
  /\ UNCHANGED <<sock, isConnected, reconnectAttempts, latest, inits, timers,
                 autoPair, pairings, pairingLog, scheduledSinceOpen>>

----------------------------------------------------------------------------
(* The minimal script (src/index.js): startBot and its connection.update   *)
(* handler.  The script keeps no bot object: sock, isConnected and         *)
(* reconnectAttempts stay as they start; scheduledSinceOpen counts the     *)
(* startBot calls the close events made since the last open event.         *)

MinimalShouldReconnectCapped(reason, n) ==
  reason # "loggedOut" /\ n < maxReconnectAttempts

\* shouldReconnect, for a close of that reason after n reconnections.
MinimalShouldReconnect(reason, n) == reason # "loggedOut"

\* startBot() resumes from its awaits, constructs its transport and
\* registers its handlers.
MinimalConstruct(caller) ==
  /\ BagIn(caller, inits)
  /\ FreeSlots # {}
  /\ LET h == Min(FreeSlots)
     IN /\ latest' = h
        /\ conn' = Release([conn EXCEPT ![h] = "connecting"], sock, replies)
  /\ inits' = inits (-) One(caller)
  /\ last' = [Quiet EXCEPT !.op = "startBot", !.reason = caller]
  /\ UNCHANGED <<sock, isConnected, reconnectAttempts, timers, autoPair,
                 replies, sending, pairings, pairingLog, scheduledSinceOpen>>

\* startBot() throws at one of its awaits or in makeWASocket: the call at
\* the end of the script has a catch, the call of the close handler none.
MinimalFail(caller) ==
  /\ BagIn(caller, inits)
  /\ inits' = inits (-) One(caller)
  /\ last' = [Quiet EXCEPT !.op = "startBot failed", !.reason = caller,
                !.thrown = (caller = "reconnect")]
  /\ UNCHANGED <<sock, isConnected, reconnectAttempts, conn, latest, timers,
                 autoPair, replies, sending, pairings, pairingLog,
                 scheduledSinceOpen>>

\* connection.update with connection === 'close' on transport h: the
\* handler calls startBot(), which runs to its first await.
MinimalOnClose(h, reason) ==
  /\ Live(conn, h)
  /\ conn' = Release([conn EXCEPT ![h] = "closed"], sock, replies)
  /\ IF MinimalShouldReconnect(reason, scheduledSinceOpen)
     THEN /\ Count(inits) < MaxInits
          /\ scheduledSinceOpen < MaxAttempts
          /\ inits' = inits (+) One("reconnect")
          /\ scheduledSinceOpen' = scheduledSinceOpen + 1
     ELSE UNCHANGED <<inits, scheduledSinceOpen>>
  /\ last' = [Quiet EXCEPT !.op = "minimal close", !.reason = reason]
  /\ UNCHANGED <<sock, isConnected, reconnectAttempts, latest, timers,
                 autoPair, replies, sending, pairings, pairingLog>>

\* connection.update with connection === 'open' on transport h.
MinimalOnOpen(h) ==
  /\ conn[h] = "connecting"
  /\ conn' = [conn EXCEPT ![h] = "open"]
  /\ scheduledSinceOpen' = 0
  /\ last' = [Quiet EXCEPT !.op = "minimal open"]
  /\ UNCHANGED <<sock, isConnected, reconnectAttempts, latest, inits, timers,
                 autoPair, replies, sending, pairings, pairingLog>>

----------------------------------------------------------------------------
(* POST /send/:number and sendDirectMessage *)

NetworkSuffix == "@s.whatsapp.net"

cleanNumberRaw(number) == number \o <<NetworkSuffix>>

cleanNumber(number) == Digits(number) \o <<NetworkSuffix>>

DirectSock(s) == s

PostSend(number, message) ==
  /\ LET request == [Quiet EXCEPT !.op = "POST /send", !.number = number,
                       !.text = message]
     IN IF message = <<>>
        THEN /\ last' = [request EXCEPT !.status = 400]
             /\ UNCHANGED sending
        ELSE IF ~isConnected \/ sock = 0
        THEN /\ last' = [request EXCEPT !.status = 500]
             /\ UNCHANGED sending
        ELSE /\ Count(sending) < MaxSending
             /\ sending' = sending (+) One("direct")
             /\ last' = [request EXCEPT !.sendOn = DirectSock(sock),
                           !.sends = 1, !.to = cleanNumber(number)]
  /\ UNCHANGED <<sock, isConnected, reconnectAttempts, conn, latest, inits,
                 timers, autoPair, replies, pairings, pairingLog,
                 scheduledSinceOpen>>

----------------------------------------------------------------------------
(* getStatus, GET /status *)

getStatusStale(connected, attempts) ==
  [name |-> BOT_NAME, connected |-> connected, phone |-> PHONE_NUMBER,
   reconnectAttempts |-> 0]

\* The status object, without its timestamp and uptime.
getStatus(connected, attempts) ==
  [name |-> BOT_NAME, connected |-> connected, phone |-> PHONE_NUMBER,
   reconnectAttempts |-> attempts]

GetStatus ==
  /\ LET status == getStatus(isConnected, reconnectAttempts)
     IN last' = [Quiet EXCEPT !.op = "GET /status", !.status = 200,
                   !.connected = status.connected,
                   !.attempts = status.reconnectAttempts]
  /\ UNCHANGED <<sock, isConnected, reconnectAttempts, conn, latest, inits,
                 timers, autoPair, replies, sending, pairings, pairingLog,
                 scheduledSinceOpen>>

----------------------------------------------------------------------------
(* Specifications *)

\* The module has run: startApplication is at its await of initialize().
Init ==
  /\ sock = 0
  /\ isConnected = FALSE
  /\ reconnectAttempts = 0
  /\ conn = [h \in Handles |-> "none"]
  /\ latest = 0
  /\ inits = One("startup")
  /\ timers = EmptyBag
  /\ autoPair = FALSE
  /\ replies = EmptyBag
  /\ sending = EmptyBag
  /\ pairings = EmptyBag
  /\ pairingLog = <<>>
  /\ scheduledSinceOpen = 0
  /\ last = Quiet

Next ==
  \/ PostStart
  \/ PostPair
  \/ \E c \in BagToSet(inits) : InitConstruct(c)
  \/ \E c \in BagToSet(inits) : InitFail(c)
  \/ \E h \in Handles, r \in Reasons : OnClose(h, r)
  \/ \E h \in Handles, g \in BOOLEAN : OnOpen(h, g)
  \/ \E d \in BagToSet(timers) : TimerFire(d)
  \/ AutoPairFire
  \/ \E c \in BagToSet(pairings) : PairingDone(c, "code1")
  \/ \E c \in BagToSet(pairings) : PairingFailed(c, <<>>)

Spec == Init /\ [][Next]_vars

\* The lifecycle with no HTTP request arriving.
NextLive ==
  \/ \E c \in BagToSet(inits) : InitConstruct(c)
  \/ \E c \in BagToSet(inits) : InitFail(c)
  \/ \E h \in Handles, r \in Reasons : OnClose(h, r)
  \/ \E h \in Handles, g \in BOOLEAN : OnOpen(h, g)
  \/ \E d \in BagToSet(timers) : TimerFire(d)
  \/ AutoPairFire
  \/ \E c \in BagToSet(pairings) : PairingDone(c, "code1")
  \/ \E c \in BagToSet(pairings) : PairingFailed(c, <<>>)

\* Timers fire; an initialize() at an await resumes, to construct its
\* transport or to throw; a transport that is connecting emits an open or
\* a close event; a pairing request settles.
Fairness ==
  /\ WF_vars(\E d \in BagToSet(timers) : TimerFire(d))
  /\ WF_vars(AutoPairFire)
  /\ WF_vars(\E c \in BagToSet(inits) : InitConstruct(c) \/ InitFail(c))
  /\ \A h \in Handles :
       WF_vars(/\ conn[h] = "connecting"
               /\ \/ \E r \in Reasons : OnClose(h, r)
                  \/ \E g \in BOOLEAN : OnOpen(h, g))
  /\ WF_vars(\E c \in BagToSet(pairings) :
               PairingDone(c, "code1") \/ PairingFailed(c, <<>>))

SpecLive == Init /\ [][NextLive]_vars /\ Fairness

NextPair ==
  \/ PostStart
  \/ PostPair
  \/ \E c \in BagToSet(inits) : InitConstruct(c)
  \/ \E c \in BagToSet(inits) : InitFail(c)
  \/ \E h \in Handles : OnClose(h, "loggedOut")
  \/ \E h \in Handles, g \in BOOLEAN : OnOpen(h, g)
  \/ AutoPairFire
  \/ \E c \in BagToSet(pairings), k \in Codes : PairingDone(c, k)
  \/ \E c \in BagToSet(pairings), e \in PairingErrors : PairingFailed(c, e)

SpecPair == Init /\ [][NextPair]_vars

NextSend ==
  \/ PostStart
  \/ \E c \in BagToSet(inits) : InitConstruct(c)
  \/ \E c \in BagToSet(inits) : InitFail(c)
  \/ \E h \in Handles : OnClose(h, "loggedOut")
  \/ \E h \in Handles, g \in BOOLEAN : OnOpen(h, g)
  \/ AutoPairFire
  \/ \E c \in BagToSet(pairings) : PairingDone(c, "code1")
  \/ \E c \in BagToSet(pairings) : PairingFailed(c, <<>>)
  \/ \E h \in Handles, m \in FewMessages : Upsert(h, "notify", <<m>>)
  \/ \E t \in BagToSet(replies), o \in FewOutcomes : CompletionDone(t, o)
  \/ \E k \in BagToSet(sending), ok \in BOOLEAN : SendDone(k, ok)
  \/ \E n \in Numbers, m \in SendTexts : PostSend(n, m)

SpecSend == Init /\ [][NextSend]_vars

\* The asynchronous calls and timers pending.
InFlight ==
  Count(inits) + Count(timers) + Count(pairings) + Count(replies)
    + Count(sending)

\* The step leaves at most MaxInFlight of them pending.
Within == InFlight' <= MaxInFlight

\* Every handler and route, each over one input.
NextAll ==
  \/ PostStart /\ Within
  \/ PostPair /\ Within
  \/ \E c \in BagToSet(inits) : InitConstruct(c)
  \/ \E c \in BagToSet(inits) : InitFail(c)
  \/ \E h \in Handles, r \in Reasons : OnClose(h, r) /\ Within
  \/ \E h \in Handles, g \in BOOLEAN : OnOpen(h, g) /\ Within
  \/ \E d \in BagToSet(timers) : TimerFire(d)
  \/ AutoPairFire /\ Within
  \/ \E c \in BagToSet(pairings) : PairingDone(c, "code1")
  \/ \E c \in BagToSet(pairings) : PairingFailed(c, <<>>)
  \/ \E h \in Handles : Upsert(h, "notify", <<OneMessage>>) /\ Within
  \/ \E t \in BagToSet(replies) : CompletionDone(t, Resolved(<<"o", "k">>))
  \/ \E k \in BagToSet(sending), ok \in BOOLEAN : SendDone(k, ok)
  \/ PostSend(<<"2", "6", "3">>, <<"h", "i">>) /\ Within
  \/ GetStatus

SpecAll == Init /\ [][NextAll]_vars

\* After startup: the first transport is open, its credentials registered.
InitHandle ==
  /\ sock = 1
  /\ isConnected = TRUE
  /\ reconnectAttempts = 0
  /\ conn = [h \in Handles |-> IF h = 1 THEN "open" ELSE "none"]
  /\ latest = 1
  /\ inits = EmptyBag
  /\ timers = EmptyBag
  /\ autoPair = TRUE
  /\ replies = EmptyBag
  /\ sending = EmptyBag
  /\ pairings = EmptyBag
  /\ pairingLog = <<>>
  /\ scheduledSinceOpen = 0
  /\ last = [Quiet EXCEPT !.op = "open", !.registered = TRUE]

\* Every message as a 'notify' batch of one, and the empty batch and a
\* message that triggers as batches of both types.
Upserts ==
  {<<"notify", <<m>>>> : m \in Messages}
  \cup
  {<<type, msgs>> : type \in {"notify", "append"},
                    msgs \in {<<>>} \cup {<<m>> : m \in FewMessages}}

NextHandle ==
  \/ \E h \in Handles, u \in Upserts : Upsert(h, u[1], u[2])
  \/ \E t \in BagToSet(replies), o \in Outcomes : CompletionDone(t, o)
  \/ \E k \in BagToSet(sending), ok \in BOOLEAN : SendDone(k, ok)

SpecHandle == InitHandle /\ [][NextHandle]_vars

\* The events of both types with no message, one message and two messages.
Batches ==
  {<<type, msgs>> :
     type \in {"notify", "append"},
     msgs \in {<<>>} \cup {<<m>> : m \in FewMessages}
               \cup {<<m, n>> : m \in FewMessages, n \in FewMessages}}

\* The messages.upsert handlers of the bot and of the minimal script, over
\* the same events.
NextUpsert ==
  \/ \E h \in Handles, u \in Batches : Upsert(h, u[1], u[2])
  \/ \E h \in Handles, u \in Batches : MinimalUpsert(h, u[1], u[2])
  \/ \E t \in BagToSet(replies), o \in FewOutcomes : CompletionDone(t, o)
  \/ \E t \in BagToSet(replies), o \in FewOutcomes :
       MinimalCompletionDone(t, o)
  \/ \E k \in BagToSet(sending), ok \in BOOLEAN : SendDone(k, ok)

SpecUpsert == InitHandle /\ [][NextUpsert]_vars

\* The minimal script has run: startBot() is at its first await.
InitMinimal ==
  /\ sock = 0
  /\ isConnected = FALSE
  /\ reconnectAttempts = 0
  /\ conn = [h \in Handles |-> "none"]
  /\ latest = 0
  /\ inits = One("start")
  /\ timers = EmptyBag
  /\ autoPair = FALSE
  /\ replies = EmptyBag
  /\ sending = EmptyBag
  /\ pairings = EmptyBag
  /\ pairingLog = <<>>
  /\ scheduledSinceOpen = 0
  /\ last = Quiet

NextMinimal ==
  \/ \E c \in BagToSet(inits) : MinimalConstruct(c)
  \/ \E c \in BagToSet(inits) : MinimalFail(c)
  \/ \E h \in Handles, r \in Reasons : MinimalOnClose(h, r)
  \/ \E h \in Handles : MinimalOnOpen(h)
  \/ \E h \in Handles, m \in FewMessages : MinimalUpsert(h, "notify", <<m>>)
  \/ \E t \in BagToSet(replies), o \in FewOutcomes :
       MinimalCompletionDone(t, o)
  \/ \E k \in BagToSet(sending), ok \in BOOLEAN : SendDone(k, ok)

SpecMinimal == InitMinimal /\ [][NextMinimal]_vars

----------------------------------------------------------------------------
(* Claims *)

\* C1: at most one transport constructed by initialize() is connecting or
\* open at any time: a new initialize() supersedes the transport before it.
C1_OneActiveTransport ==
  Cardinality({h \in Handles : Live(conn, h)}) <= 1

\* C2: every send (a reply of handleMessage, a send of sendDirectMessage, a
\* pairing-code request) is made on the transport constructed last, also
\* the reply to a message an earlier transport delivered and the reply
\* whose completion call began before this.sock was replaced.
C2_SendsOnLatest ==
  /\ last.sends > 0 => last.sendOn = latest
  /\ last.pairOn # 0 => last.pairOn = latest

\* A reply whose message the transport then held delivered, sent after
\* initialize() replaced that transport during the completion call.
C2_Witness ==
  /\ last.op = "completion"
  /\ last.sends = 1
  /\ last.replaced
  /\ last.deliveredBy # last.sendOn

\* C3: reconnectAttempts stays within 0..5; an open event sets it to 0, a
\* close event whose reason is not logged-out adds 1 when it is below 5, and
\* no other step changes it.
C3_CounterBounded ==
  /\ reconnectAttempts \in 0..5
  /\ [][/\ reconnectAttempts' \in 0..5
        /\ reconnectAttempts' =
             IF last'.op = "open" THEN 0
             ELSE IF /\ last'.op = "close"
                     /\ last'.reason # "loggedOut"
                     /\ reconnectAttempts < 5
             THEN reconnectAttempts + 1
             ELSE reconnectAttempts]_vars

\* A close event counted while another transport is still alive.
C3_Witness ==
  /\ last.op = "close"
  /\ last.delay > 0
  /\ reconnectAttempts >= 2
  /\ \E h \in Handles : Live(conn, h)

\* C4: at most 5 reconnections are scheduled between two open events: a
\* close event whose reason is not logged-out either schedules one, or,
\* when 5 were scheduled since the last open event, schedules none and
\* reports that the maximum was reached.
C4_RetriesCapped ==
  /\ scheduledSinceOpen <= 5
  /\ (last.op = "close" /\ last.reason # "loggedOut") =>
       \/ last.delay > 0 /\ ~last.fatal
       \/ last.delay = 0 /\ last.fatal /\ scheduledSinceOpen = 5

\* The close event after the fifth scheduled reconnection.
C4_Witness ==
  /\ last.op = "close"
  /\ last.fatal
  /\ scheduledSinceOpen = 5
  /\ timers = EmptyBag

\* C5: the reconnection a close event schedules is delayed by 5000 ms times
\* reconnectAttempts as the event leaves it.
C5_LinearBackoff ==
  (last.op = "close" /\ last.reason # "loggedOut" /\ ~last.fatal) =>
    /\ reconnectAttempts >= 1
    /\ last.delay = reconnectAttempts * 5000
    /\ BagIn(last.delay, timers)

\* The third attempt, scheduled after 15000 ms.
C5_Witness ==
  /\ last.op = "close"
  /\ reconnectAttempts = 3
  /\ last.delay = 15000

\* C6: a close event whose reason is logged-out leaves reconnectAttempts and
\* the timers as they were, sets isConnected to false and makes one
\* pairing-code request.
C6_LoggedOut ==
  [][(last'.op = "close" /\ last'.reason = "loggedOut") =>
       /\ reconnectAttempts' = reconnectAttempts
       /\ timers' = timers
       /\ scheduledSinceOpen' = scheduledSinceOpen
       /\ last'.delay = 0
       /\ ~isConnected'
       /\ last'.pairOn # 0
       /\ Count(pairings') = Count(pairings) + 1]_vars

\* A logged-out close event after two counted close events.
C6_Witness ==
  /\ last.op = "close"
  /\ last.reason = "loggedOut"
  /\ reconnectAttempts = 2
  /\ last.pairOn # 0

\* C7: an open event sets isConnected to true and reconnectAttempts to 0,
\* and makes a pairing-code request exactly when the credentials are not
\* registered.
C7_Open ==
  last.op = "open" =>
    /\ isConnected
    /\ reconnectAttempts = 0
    /\ scheduledSinceOpen = 0
    /\ (last.pairOn # 0) <=> ~last.registered

\* An open event with unregistered credentials while a reconnection
\* scheduled by an earlier close event is still pending.
C7_Witness ==
  /\ last.op = "open"
  /\ ~last.registered
  /\ last.pairOn # 0
  /\ timers # EmptyBag

\* The text of a message as the claims name it: the first non-empty of the
\* plain body, the extended-text body, the image and the video caption.
FirstNonEmpty(texts) ==
  IF \E i \in 1..Len(texts) : texts[i] # <<>>
  THEN texts[Min({i \in 1..Len(texts) : texts[i] # <<>>})]
  ELSE <<>>

TextOf(m) ==
  FirstNonEmpty(<<m.conversation, m.extendedText, m.imageCaption,
                  m.videoCaption>>)

Ignorable(m) ==
  \/ ~m.hasMessage
  \/ m.fromMe
  \/ TextOf(m) = <<>>
  \/ Len(TextOf(m)) < 2

\* C8: handleMessage does nothing (no completion call, no send) for a
\* message without content, from the bot itself, or whose text is empty or
\* shorter than 2 characters.
C8_Ignored ==
  /\ \A t \in BagToSet(replies) : ~Ignorable(t.msg)
  /\ (last.op = "messages.upsert" /\ Ignorable(last.msg)) =>
       /\ ~last.completion
       /\ last.sends = 0

\* A message of the bot itself whose text would trigger.
C8_Witness ==
  /\ last.op = "messages.upsert"
  /\ last.reason = "notify"
  /\ last.msg.hasMessage
  /\ last.msg.fromMe
  /\ Includes(TextOf(last.msg), Karl)
  /\ ~last.completion

KarlAnyCase(text) ==
  \E i \in 1..(Len(text) - 3) :
    /\ text[i] \in {"k", "K"}
    /\ text[i + 1] \in {"a", "A"}
    /\ text[i + 2] \in {"r", "R"}
    /\ text[i + 3] \in {"l", "L"}

NoKeyword(text) ==
  LET lowered == Trim([i \in 1..Len(text) |-> LowerChar(text[i])])
  IN /\ ~Includes(lowered, Karl)
     /\ ~Includes(lowered, AtKarl)
     /\ ~Includes(lowered, Assistant)
     /\ ~Includes(lowered, AiSpace)

Apology(message) ==
  IF Includes(message, RateLimit) THEN Busy
  ELSE IF Includes(message, Invalid) THEN Checkup
  ELSE Issues

\* C10: when the completion call fails, handleMessage makes exactly one
\* send, on this.sock, of the bot name followed by the apology the error
\* message selects: busy for "rate limit", else misconfigured for
\* "invalid", else unavailable.
C10_Apology ==
  (last.op = "completion" /\ last.failed) =>
    /\ last.sends = 1
    /\ last.sendOn = sock
    /\ last.text = <<BOT_NAME, ": ", Apology(last.err)>>
    /\ BagIn("reply", sending)

\* A failure whose message contains both "rate limit" and "invalid".
C10_Witness ==
  /\ last.op = "completion"
  /\ last.failed
  /\ Includes(last.err, RateLimit)
  /\ Includes(last.err, Invalid)
  /\ last.text = <<BOT_NAME, ": ", Busy>>

\* C11: when the send of a reply fails, handleMessage returns normally
\* (nothing goes out to the event loop), issues no send again, and leaves
\* isConnected and reconnectAttempts alone; a send of a reply begins only in
\* the step that ends a completion call, and a completion call begins only
\* in a messages.upsert step.
C11_SendFailure ==
  [][/\ (last'.op = "send settled" /\ last'.reason = "reply" /\ last'.failed)
          => /\ ~last'.thrown
             /\ last'.resends = 0
             /\ last'.sends = 0
             /\ sending' = sending (-) One("reply")
             /\ UNCHANGED <<isConnected, reconnectAttempts, replies>>
     /\ CopiesIn("reply", sending') > CopiesIn("reply", sending)
          => /\ last'.op = "completion"
             /\ CopiesIn("reply", sending') = CopiesIn("reply", sending) + 1
             /\ Count(replies') = Count(replies) - 1
     /\ Count(replies') > Count(replies)
          => last'.op = "messages.upsert" /\ last'.completion]_vars

\* The send of a reply has failed and nothing is in flight any more.
C11_Witness ==
  /\ last.op = "send settled"
  /\ last.reason = "reply"
  /\ last.failed
  /\ sending = EmptyBag
  /\ replies = EmptyBag

\* C12: requestPairingCode never throws: without a transport handle it
\* makes no pairing request (and so writes no record); when the pairing
\* request fails, whatever the message of the error, it lets nothing out,
\* leaves pairing_log.json as it was and changes nothing else of the bot.
C12_PairingNeverThrows ==
  /\ \A c \in PairCallers :
       requestPairingCode(0, c) = EmptyBag /\ PairOn(0) = 0
  /\ [][/\ last'.op \in {"paired", "pairing failed"} => ~last'.thrown
        /\ last'.op = "pairing failed"
             => /\ last'.err \in PairingErrors
                /\ pairingLog' = pairingLog
                /\ pairings' = pairings (-) One(last'.reason)
                /\ UNCHANGED <<sock, isConnected, reconnectAttempts, conn,
                               inits, timers, autoPair>>]_vars

\* A pairing request has failed, with an error that is not the benign one,
\* after a record had been stored.
C12_Witness ==
  /\ last.op = "pairing failed"
  /\ PairingAdvice(last.err) = "try manual pairing"
  /\ pairingLog # <<>>

\* C13: pairing_log.json holds no record until a pairing request succeeds,
\* and from then on exactly one: the code of the pairing request that
\* succeeded last, whichever invocation began first, with the configured
\* phone number and status 'generated'.
C13_LastWriteWins ==
  /\ Len(pairingLog) <= 1
  /\ [][pairingLog' =
          IF last'.op = "paired"
          THEN <<[phone |-> PHONE_NUMBER, code |-> last'.code,
                  status |-> "generated"]>>
          ELSE pairingLog]_vars

\* Of two overlapping invocations, one has stored its code and a later one
\* has failed while a third is still at its await.
C13_Witness ==
  /\ last.op = "pairing failed"
  /\ pairingLog = <<[phone |-> PHONE_NUMBER, code |-> "code2",
                     status |-> "generated"]>>
  /\ Count(pairings) >= 1

\* The decimal digits of a number, in their order.
DigitsOnly(number) ==
  SelectSeq(number,
            LAMBDA c : c \in {"0", "1", "2", "3", "4", "5", "6", "7", "8", "9"})

\* C14: POST /send/:number without a message answers 400 and calls no
\* transport; with a message, while the bot is not connected or holds no
\* handle, it answers 500 and calls no transport; otherwise it makes one
\* sendMessage call on the handle held, to the digits of the number followed
\* by "@s.whatsapp.net", and answers 200 when that send succeeds.
C14_PostSend ==
  /\ last.op = "POST /send" =>
       IF last.text = <<>>
       THEN last.status = 400 /\ last.sends = 0
       ELSE IF ~isConnected \/ sock = 0
       THEN last.status = 500 /\ last.sends = 0
       ELSE /\ last.sends = 1
            /\ last.sendOn = sock
            /\ last.to = DigitsOnly(last.number) \o <<"@s.whatsapp.net">>
            /\ last.status = 0
            /\ BagIn("direct", sending)
  /\ (last.op = "send settled" /\ last.reason = "direct") =>
       /\ last.status = IF last.failed THEN 500 ELSE 200
       /\ last.sends = 0

\* A send to a number written with a sign, a blank and a dash.
C14_Witness ==
  /\ last.op = "POST /send"
  /\ last.sends = 1
  /\ last.number = <<"+", "2", "6", " ", "3", "-", "7">>
  /\ last.to = <<"2", "6", "3", "7", "@s.whatsapp.net">>

\* C15: only the steps of the connection.update handler (an open or a
\* close event) change isConnected or reconnectAttempts: initialize(),
\* handleMessage, requestPairingCode, sendDirectMessage, the timers and the
\* routes leave both alone; getStatus returns their current values and
\* changes nothing.
C15_Frame ==
  [][/\ (isConnected' # isConnected \/ reconnectAttempts' # reconnectAttempts)
          => last'.op \in {"open", "close"}
     /\ last'.op = "GET /status"
          => /\ last'.connected = isConnected
             /\ last'.attempts = reconnectAttempts
             /\ UNCHANGED <<sock, isConnected, reconnectAttempts, conn, latest,
                            inits, timers, autoPair, replies, sending,
                            pairings, pairingLog, scheduledSinceOpen>>]_vars

\* The status read after three closes, while a reply is being sent.
C15_Witness ==
  /\ last.op = "GET /status"
  /\ ~last.connected
  /\ last.attempts = 3
  /\ BagIn("reply", sending)

\* C16: a pending reconnect timer goes away only by firing, and when it
\* fires it calls initialize(): POST /start, POST /pair and an open event
\* leave it pending; every initialize() that gets to makeWASocket, the
\* timer's as well as a route's, constructs a transport of its own.
C16_TimerNotCancelled ==
  [][/\ \A d \in BagToSet(timers) :
          CopiesIn(d, timers') < CopiesIn(d, timers)
            => /\ last'.op = "timer"
               /\ CopiesIn("timer", inits') = CopiesIn("timer", inits) + 1
     /\ last'.op \in {"POST /start", "POST /pair", "open"}
          => \A d \in BagToSet(timers) : CopiesIn(d, timers') = CopiesIn(d, timers)
     /\ last'.op = "initialize"
          => /\ ~Live(conn, sock')
             /\ conn'[sock'] = "connecting"
             /\ latest' = sock']_vars

\* The timer's initialize() and that of POST /start are both at an await,
\* after an open event.
C16_Witness ==
  /\ BagIn("timer", inits)
  /\ BagIn("start", inits)
  /\ isConnected

\* C17: whenever isConnected is true, the transport this.sock holds is
\* open.
C17_ConnectedMeansOpen ==
  isConnected => sock # 0 /\ conn[sock] = "open"

\* C18: when timers fire and every initialize() either throws or yields a
\* transport that emits an open or a close event, every close event whose
\* reason is not logged-out is followed by the bot being connected, or by
\* the report that the maximum of reconnect attempts was reached (or by a
\* logged-out close, which ends the retrying).
C18_Recovers ==
  (last.op = "close" /\ last.reason # "loggedOut")
    ~> \/ isConnected
       \/ last.fatal
       \/ last.op = "close" /\ last.reason = "loggedOut"

\* C19: when POST /pair answers 200 with a pairing code, the pairing request
\* of this same request succeeded and the code is the one it returned.
C19_PairAnswersOwnCode ==
  (/\ last.op \in {"paired", "pairing failed"}
   /\ last.reason = "pair"
   /\ last.status = 200
   /\ last.answered \in Codes)
    => ~last.failed /\ last.answered = last.code

\* The handleMessage call (or, in the minimal script, the handler's own
\* completion call) the step began, for the first message of its batch.
BeganFor(first, script) ==
  replies' = replies (+)
    One([h |-> last'.deliveredBy, msg |-> first, replaced |-> FALSE,
         minimal |-> script = "minimal"])

\* C20 as stated: a messages.upsert event, in the bot and in the minimal
\* script, begins at most one completion call and no send, the call is for
\* the first message of the batch, and an event of another type than
\* 'notify' or with no message begins none.
C20_OnlyNotifyHandled ==
  [][last'.op \in {"messages.upsert", "minimal messages.upsert"}
       => /\ sending' = sending
          /\ last'.sends = 0
          /\ IF last'.completion
             THEN /\ last'.reason = "notify"
                  /\ Len(last'.batch) > 0
                  /\ BeganFor(last'.batch[1],
                              IF last'.op = "messages.upsert" THEN "bot"
                              ELSE "minimal")
             ELSE replies' = replies]_vars

\* C20, amended: a messages.upsert event begins at most one completion call
\* and no send, and the call is for the first message of the batch; a
\* completion call that ends begins at most one send.  The bot handles only
\* the events of type 'notify' that carry a message; the minimal script
\* handles the first message of an event of any type, and throws on an
\* event with no message.
C20_FirstMessageOnly ==
  [][/\ last'.op = "messages.upsert"
          => /\ sending' = sending /\ last'.sends = 0 /\ ~last'.thrown
             /\ IF last'.completion
                THEN /\ last'.reason = "notify"
                     /\ Len(last'.batch) > 0
                     /\ BeganFor(last'.batch[1], "bot")
                ELSE replies' = replies
             /\ (/\ last'.reason = "notify"
                 /\ Len(last'.batch) > 0
                 /\ KarlAnyCase(TextOf(last'.batch[1]))
                 /\ last'.batch[1].hasMessage
                 /\ ~last'.batch[1].fromMe) => last'.completion
     /\ last'.op = "minimal messages.upsert"
          => /\ sending' = sending /\ last'.sends = 0
             /\ last'.thrown <=> Len(last'.batch) = 0
             /\ IF last'.completion
                THEN /\ Len(last'.batch) > 0
                     /\ BeganFor(last'.batch[1], "minimal")
                ELSE replies' = replies
     /\ last'.op \in {"completion", "minimal completion"}
          => /\ last'.sends <= 1
             /\ Count(sending') <= Count(sending) + 1
             /\ Count(replies') = Count(replies) - 1]_vars

\* A 'notify' batch of two whose second message alone would trigger: the
\* bot begins no completion call.
C20_Witness ==
  /\ last.op = "messages.upsert"
  /\ last.reason = "notify"
  /\ Len(last.batch) = 2
  /\ ~KarlAnyCase(TextOf(last.batch[1]))
  /\ KarlAnyCase(TextOf(last.batch[2]))
  /\ ~last.completion
  /\ replies = EmptyBag

\* C21: in the minimal script every close event whose reason is not
\* logged-out calls startBot() at once, setting no timer, however many
\* calls the close events made since the last open event; a logged-out
\* close calls none; only an open event sets that number back.
C21_MinimalReconnect ==
  [][/\ last'.op = "minimal close"
          => /\ timers' = EmptyBag
             /\ last'.delay = 0
             /\ ~last'.fatal
             /\ IF last'.reason # "loggedOut"
                THEN /\ inits' = inits (+) One("reconnect")
                     /\ scheduledSinceOpen' = scheduledSinceOpen + 1
                ELSE /\ inits' = inits
                     /\ scheduledSinceOpen' = scheduledSinceOpen
     /\ scheduledSinceOpen' < scheduledSinceOpen => last'.op = "minimal open"
     /\ CopiesIn("reconnect", inits') > CopiesIn("reconnect", inits)
          => last'.op = "minimal close" /\ last'.reason # "loggedOut"]_vars

\* More startBot calls of close events than the 5 the bot allows itself,
\* with no open event between them.
C21_Witness ==
  /\ last.op = "minimal close"
  /\ last.reason # "loggedOut"
  /\ scheduledSinceOpen > maxReconnectAttempts
  /\ BagIn("reconnect", inits)

====
